---- MODULE Spec2Model ----
(***************************************************************************)
(* Model of the tengen notebooks: the unit-string repair routine, the      *)
(* download and format steps of the five adapters (WHI 2008, SOLID 2017,   *)
(* Meftah 2018, Thuillier 2003, TSIS-1 HSRS FSE), the Run section that     *)
(* calls them, the data they hand to the dataset builder                   *)
(* tengen.to_dataset, and the builder as it is specified.                  *)
(*                                                                         *)
(* Strings that the code inspects character by character are sequences of  *)
(* one-character strings; Python indices are 0-based and kept 0-based in   *)
(* the operators that model index arithmetic.                              *)
(***************************************************************************)
EXTENDS Integers, Sequences, FiniteSets, TLC

VARIABLES
    u_in,       \* units: the argument of the last format_missing_carats_units call
    u_out,      \* units: the value that call returned
    napply,     \* units: number of calls made so far (each on the previous result)
    adapter,    \* adapters: the notebook being run
    dirs,       \* adapters: the directories that exist
    files,      \* adapters: <<directory, file name>> -> content
    outcome,    \* adapters: what the last download/format call did and returned
    job,        \* data: the raw data a format step reads
    built,      \* data: the arguments that format step passes to the builder
    procs,      \* run: the notebooks whose Run section is being executed
    update_cache, \* run: notebook -> its UPDATE_CACHE at the time of the run
    pc,         \* run: notebook -> the statement of its Run section it is at
    log,        \* run: notebook -> the statements it has executed, oldest first
    runs        \* run: notebook -> which run this is, and what the earlier ones left

vars == <<u_in, u_out, napply, adapter, dirs, files, outcome, job, built,
          procs, update_cache, pc, log, runs>>

unitVars == <<u_in, u_out, napply>>
fsVars == <<adapter, dirs, files, outcome>>
dataVars == <<job, built>>
runVars == <<procs, update_cache, pc, log, runs>>

None == "None"

(***************************************************************************)
(* Bounds of the model.                                                    *)
(***************************************************************************)
MaxLen == 4         \* longest enumerated unit string
MaxApply == 2       \* calls of the repair routine in a row
MaxFail == 2        \* SOLID: the failing transfer is among the first MaxFail, or the last
MaxRecords == 3     \* SOLID: largest merged.time.size
MaxW == 2           \* SOLID: largest number of wavelengths
MaxRows == 3        \* Meftah: most rows of the raw table
MaxRuns == 3        \* Run section: times a notebook is run on the same cache

(***************************************************************************)
(* Character classes of the two regular expressions.                       *)
(***************************************************************************)
Signs == {"-", "+"}
Digits == {"0", "1", "2", "3", "4", "5", "6", "7", "8", "9"}
LowerOrSpace ==
    {"a", "b", "c", "d", "e", "f", "g", "h", "i", "j", "k", "l", "m", "n", "o",
     "p", "q", "r", "s", "t", "u", "v", "w", "x", "y", "z", " "}
Caret == "^"

\* The characters unit strings are enumerated over: a lower-case letter, an
\* upper-case letter, a space, both signs, a digit and the caret.
Alphabet == {"m", "W", " ", "-", "+", "1", "^"}

\* re.finditer(P1 P2, s) from 0-based position pos on: the 0-based starts of
\* the leftmost non-overlapping two-character matches, in increasing order.
RECURSIVE finditer(_, _, _, _)
finditer(s, pos, P1, P2) ==
    IF pos + 2 > Len(s) THEN <<>>
    ELSE IF s[pos + 1] \in P1 /\ s[pos + 2] \in P2
         THEN <<pos>> \o finditer(s, pos + 2, P1, P2)
         ELSE finditer(s, pos + 1, P1, P2)

\* A faulty variant of InsertCaret that puts the caret in the place of the
\* character at k.
InsertCaret_overwriting(s, k) == SubSeq(s, 1, k) \o <<Caret>> \o SubSeq(s, k + 2, Len(s))

\* s[:k] + "^" + s[k:]
InsertCaret(s, k) == SubSeq(s, 1, k) \o <<Caret>> \o SubSeq(s, k + 1, Len(s))

\* A faulty variant of InsertCarets that forgets the shift by the carets it has
\* already inserted.
RECURSIVE InsertCaretsNoShift(_, _, _, _)
InsertCaretsNoShift(s, where, count, off) ==
    IF count >= Len(where) THEN s
    ELSE InsertCaretsNoShift(InsertCaret(s, where[count + 1] + off),
                             where, count + 1, off)

\* for count, i in enumerate(where): s = s[: i + count + off] + "^" + s[i + count + off :]
\* from the count-th element of where on (off = 0 in the first loop, 1 in the second).
RECURSIVE InsertCarets(_, _, _, _)
InsertCarets(s, where, count, off) ==
    IF count >= Len(where) THEN s
    ELSE InsertCarets(InsertCaret(s, where[count + 1] + count + off),
                      where, count + 1, off)

\* A faulty variant of format_missing_carats_units whose second loop puts
\* the caret at the start of the match, before the letter or space.
format_missing_carats_units_at_match(s) ==
    LET where == finditer(s, 0, Signs, Digits)
        s1 == InsertCarets(s, where, 0, 0)
        where2 == finditer(s1, 0, LowerOrSpace, Digits)
    IN  InsertCarets(s1, where2, 0, 0)

format_missing_carats_units(s) ==
    LET where == finditer(s, 0, Signs, Digits)
        s1 == InsertCarets(s, where, 0, 0)
        where2 == finditer(s1, 0, LowerOrSpace, Digits)
    IN  InsertCarets(s1, where2, 0, 1)

\* A faulty variant of format_missing_carats_units_fse that leaves out the
\* second loop.
format_missing_carats_units_fse_one_pass(s) ==
    LET where == finditer(s, 0, {"-", "+"}, {"0", "1", "2", "3", "4", "5", "6", "7", "8", "9"})
    IN  InsertCarets(s, where, 0, 0)

\* The routine as written in the TSIS-1 FSE notebook, with the character
\* classes of its own two patterns, "[-+][0-9]" and "[a-z ][0-9]".
format_missing_carats_units_fse(s) ==
    LET digit == {"0", "1", "2", "3", "4", "5", "6", "7", "8", "9"}
        lower == {"a", "b", "c", "d", "e", "f", "g", "h", "i", "j", "k", "l", "m",
                  "n", "o", "p", "q", "r", "s", "t", "u", "v", "w", "x", "y", "z"}
        where == finditer(s, 0, {"-", "+"}, digit)
        s1 == InsertCarets(s, where, 0, 0)
        where2 == finditer(s1, 0, lower \cup {" "}, digit)
    IN  InsertCarets(s1, where2, 0, 1)

(***************************************************************************)
(* Unit strings handed to the routine.                                     *)
(***************************************************************************)
ExampleUnits ==
    { <<"m", "-", "1">>,
      <<"m", "^", "-", "1">>,
      <<"W", " ", "m", "-", "2", " ", "n", "m", "-", "1">>,
      <<"W", " ", "m", "^", "-", "2", " ", "n", "m", "^", "-", "1">>,
      <<"W", "2">>,
      <<"m", "1", "0">>,
      <<"m", "-", "1", "0">> }

\* Every string over the alphabet of length n.
StringsOfLen(n) == [1..n -> Alphabet]

UnitsIdle == u_in = <<>> /\ u_out = <<>> /\ napply = 0
FsIdle == adapter = None /\ dirs = {} /\ files = <<>> /\ outcome = [op |-> "none"]
DataIdle == job = [adapter |-> None] /\ built = [adapter |-> None]
RunIdle == procs = {} /\ update_cache = <<>> /\ pc = <<>> /\ log = <<>> /\ runs = <<>>

InitUnits ==
    /\ \/ \E n \in 0..MaxLen : u_in \in StringsOfLen(n)
       \/ u_in \in ExampleUnits
    /\ u_out = <<>>
    /\ napply = 0
    /\ FsIdle
    /\ DataIdle
    /\ RunIdle

\* A first call, on the string of the dataset's units attribute.
Repair ==
    /\ napply = 0
    /\ u_out' = format_missing_carats_units(u_in)
    /\ napply' = 1
    /\ UNCHANGED <<u_in, fsVars, dataVars, runVars>>

\* A further call, on the string the previous call returned.
RepairAgain ==
    /\ napply >= 1
    /\ napply < MaxApply
    /\ u_in' = u_out
    /\ u_out' = format_missing_carats_units(u_out)
    /\ napply' = napply + 1
    /\ UNCHANGED <<fsVars, dataVars, runVars>>

NextUnits == Repair \/ RepairAgain

SpecUnits == InitUnits /\ [][NextUnits]_vars

(***************************************************************************)
(* Properties of the unit repair.                                          *)
(***************************************************************************)
\* 0-based starts of the sign-digit pairs and of the letter-or-space-digit
\* pairs of a string, read off the string itself.
SignedAt(s) == {i \in 0..(Len(s) - 2) : s[i + 1] \in Signs /\ s[i + 2] \in Digits}
BareAt(s) == {i \in 0..(Len(s) - 2) : s[i + 1] \in LowerOrSpace /\ s[i + 2] \in Digits}

\* Every exponent of s already has its caret: each sign-digit pair is
\* preceded by one and no digit directly follows a letter or a space.
AllExponentsCareted(s) ==
    /\ BareAt(s) = {}
    /\ \A i \in SignedAt(s) : i >= 1 /\ s[i] = Caret

\* Where the character at 0-based index i of the input stands in the output,
\* 0-based, once every caret due before it has been inserted.
Shifted(s, i) ==
    i + Cardinality({j \in SignedAt(s) : j <= i})
      + Cardinality({k \in BareAt(s) : k < i})

U_m1 == <<"m", "-", "1">>
U_m1_careted == <<"m", "^", "-", "1">>
U_ssi == <<"W", " ", "m", "-", "2", " ", "n", "m", "-", "1">>
U_ssi_careted == <<"W", " ", "m", "^", "-", "2", " ", "n", "m", "^", "-", "1">>

\* C1: the repair is idempotent: a call on the result of a previous call
\* returns its argument unchanged.
C1_RepairIdempotent == napply >= 2 => u_out = u_in

\* C2: a string in which every exponent is already preceded by a caret is
\* returned unchanged.
C2_CaretedUnchanged == (napply >= 1 /\ AllExponentsCareted(u_in)) => u_out = u_in

\* C3: "m-1" becomes "m^-1" and "W m-2 nm-1" becomes "W m^-2 nm^-1"; in
\* general every sign-digit pair of the input is found in the output at its
\* shifted position with a caret immediately before the sign, and with
\* exactly one caret there when the input had none.
C3_SignedExponentsCareted ==
    napply >= 1 =>
        /\ u_in = U_m1 => u_out = U_m1_careted
        /\ u_in = U_ssi => u_out = U_ssi_careted
        /\ \A i \in SignedAt(u_in) :
              LET p == Shifted(u_in, i) IN
              /\ p + 2 <= Len(u_out)
              /\ u_out[p] = Caret
              /\ u_out[p + 1] = u_in[i + 1]
              /\ u_out[p + 2] = u_in[i + 2]
              /\ (i = 0 \/ u_in[i] # Caret) => (p = 1 \/ u_out[p - 1] # Caret)

\* C3 witness: the two-exponent example has been repaired.
C3_Witness == napply = 1 /\ u_in = U_ssi /\ u_out = U_ssi_careted

\* The alphabetic characters of the unit strings, of either case, and the
\* space.
AlphaOrSpace == LowerOrSpace \cup {"W"}

\* 0-based starts of the pairs of an alphabetic character or a space and a
\* digit.
AlphaBareAt(s) == {i \in 0..(Len(s) - 2) : s[i + 1] \in AlphaOrSpace /\ s[i + 2] \in Digits}

\* C21: a caret is inserted between a digit run and the character before it
\* whenever that character is alphabetic, of either case, or a space: every
\* such pair of the input is found in the output with exactly one caret
\* between its two characters; "W2" becomes "W^2", "m10" becomes "m^10" and
\* "m-10" becomes "m^-10".
C21_CaretAfterAlphabeticOrSpace ==
    napply = 1 =>
        /\ u_in = <<"W", "2">> => u_out = <<"W", "^", "2">>
        /\ u_in = <<"m", "1", "0">> => u_out = <<"m", "^", "1", "0">>
        /\ u_in = <<"m", "-", "1", "0">> => u_out = <<"m", "^", "-", "1", "0">>
        /\ \A i \in AlphaBareAt(u_in) :
              LET p == i + Cardinality({j \in SignedAt(u_in) : j <= i})
                         + Cardinality({k \in AlphaBareAt(u_in) : k < i})
              IN  /\ p + 3 <= Len(u_out)
                  /\ u_out[p + 1] = u_in[i + 1]
                  /\ u_out[p + 2] = Caret
                  /\ u_out[p + 3] = u_in[i + 2]

\* A string with every caret deleted.
RECURSIVE Uncareted(_)
Uncareted(s) ==
    IF s = <<>> THEN <<>>
    ELSE (IF Head(s) = Caret THEN <<>> ELSE <<Head(s)>>) \o Uncareted(Tail(s))

\* C26: the repair only inserts carets: the output with its carets deleted
\* is the input with its carets deleted, and the output is longer than the
\* input by the number of sign-digit pairs plus the number of
\* letter-or-space-digit pairs found.
C26_OnlyCaretsInserted ==
    napply >= 1 =>
        /\ Uncareted(u_out) = Uncareted(u_in)
        /\ Len(u_out) = Len(u_in) + Cardinality(SignedAt(u_in))
                                  + Cardinality(BareAt(u_in))

\* C26 witness: a string with a sign-digit pair and a letter-digit pair has
\* been repaired and is two characters longer.
C26_Witness ==
    /\ napply = 1
    /\ SignedAt(u_in) # {}
    /\ BareAt(u_in) # {}
    /\ Len(u_out) = Len(u_in) + 2

\* C27: in the repaired string every sign that is followed by a digit is
\* immediately preceded by a caret, and every digit that directly followed a
\* lower-case letter or a space in the input is immediately preceded by a
\* caret, with that letter or space right before the caret; no caret of the
\* second pass stands between a sign and the caret the first pass gave it.
C27_ExponentsCaretedAfterRepair ==
    napply >= 1 =>
        /\ \A i \in SignedAt(u_out) : i >= 1 /\ u_out[i] = Caret
        /\ \A i \in BareAt(u_in) :
              LET p == Shifted(u_in, i) IN
              /\ p + 3 <= Len(u_out)
              /\ u_out[p + 1] = u_in[i + 1]
              /\ u_out[p + 2] = Caret
              /\ u_out[p + 3] = u_in[i + 2]

\* C27 witness: a string with a letter-digit pair before a sign-digit pair
\* has been repaired; both pairs have their caret.
C27_Witness ==
    /\ napply = 1
    /\ u_in = <<"m", "1", "-", "1">>
    /\ u_out = <<"m", "^", "1", "^", "-", "1">>

\* C28: the routine of the SOLID notebook and the routine of the TSIS-1 FSE
\* notebook compute the same function: on every string the FSE routine
\* returns what the SOLID routine has returned.
C28_RepairCopiesAgree ==
    napply >= 1 => format_missing_carats_units_fse(u_in) = u_out

\* C28 witness: the SOLID routine has repaired "m1-1", a string that needs
\* both loops, and the FSE routine gives the same six characters; the FSE
\* routine also repairs "W m-2 nm-1".
C28_Witness ==
    /\ napply = 1
    /\ u_in = <<"m", "1", "-", "1">>
    /\ Len(u_out) = 6
    /\ format_missing_carats_units_fse(u_in) = u_out
    /\ format_missing_carats_units_fse(U_ssi) = U_ssi_careted

(***************************************************************************)
(* The adapters at the level of files: download and format.                *)
(*                                                                         *)
(* A directory is a name; files maps <<directory, file name>> to a         *)
(* content.  A raw file holds the body of a transport response: "data"     *)
(* for a successful response, "errbody" for the body that comes with a     *)
(* non-success status.  A formatted file holds the dataset written to it.  *)
(* A formatted file name is <<stem, tail>>: the IDENTIFIER and the         *)
(* characters that follow it.                                              *)
(***************************************************************************)
WHI == "whi_2008"
SOLID == "solid_2017"
MEFTAH == "meftah_2018"
THUILLIER == "thuillier_2003"
FSE == "coddington_2022-fse"
Adapters == {WHI, SOLID, MEFTAH, THUILLIER, FSE}

DATA_URL == "DATA_URL"          \* the module-level constant of the notebook
OtherUrl == "OTHER_URL"         \* any other url a caller may pass
Urls == {DATA_URL, OtherUrl}

RawDir == "raw"                 \* tengen.RAW_DATA_DIR / IDENTIFIER
FormattedDir == "formatted"     \* tengen.FORMATTED_DATA_DIR / IDENTIFIER
TmpDir == "tmp"                 \* a tempfile.TemporaryDirectory

SOLID_FILES == <<"solid_0_100.nc", "solid_100_100.nc", "solid_200_100.nc", "solid_300_100.nc", "solid_400_100.nc", "solid_500_100.nc", "solid_600_100.nc", "solid_700_100.nc", "solid_800_100.nc", "solid_900_100.nc", "solid_1000_100.nc", "solid_1100_100.nc", "solid_1200_100.nc", "solid_1300_100.nc", "solid_1400_100.nc", "solid_1500_100.nc", "solid_1600_100.nc", "solid_1700_100.nc", "solid_1800_100.nc", "solid_1900_100.nc">>
FSE_FILENAMES == <<"binned_fs_", "fs_">>
FSE_FILENAME_SUFFIX == "hybrid_reference_spectrum_c2022-11-30_with_unc.nc"

\* The raw files of an adapter, in the order they are downloaded.
RawFiles(a) ==
    CASE a = WHI -> <<"ref_solar_irradiance_whi-2008_ver2.dat">>
      [] a = SOLID -> SOLID_FILES
      [] a = MEFTAH -> <<"spectrum.dat">>
      [] a = THUILLIER -> <<"f0.txt">>
      [] a = FSE -> [j \in 1..Len(FSE_FILENAMES) |-> FSE_FILENAMES[j] \o FSE_FILENAME_SUFFIX]

RawContent(body) == [kind |-> "raw", body |-> body]

\* A faulty variant of WriteRaw that does not overwrite: the content of a
\* name that is taken goes to a file of that name with ".1" appended.
WriteRaw_keeping(f, dir, names, bodies, n) ==
    LET name(j) == IF <<dir, names[j]>> \in DOMAIN f THEN names[j] \o ".1" ELSE names[j]
        new == {<<dir, name(j)>> : j \in 1..n}
        idx(x) == CHOOSE j \in 1..n : x = <<dir, name(j)>>
    IN  [x \in DOMAIN f \cup new |->
            IF x \in new THEN RawContent(bodies[idx(x)]) ELSE f[x]]

\* open(dir / name, "wb").write(content), for the first n names of a list.
WriteRaw(f, dir, names, bodies, n) ==
    LET new == {<<dir, names[j]>> : j \in 1..n}
        idx(x) == CHOOSE j \in 1..n : x = <<dir, names[j]>>
    IN  [x \in DOMAIN f \cup new |->
            IF x \in new THEN RawContent(bodies[idx(x)]) ELSE f[x]]

NamesOf(names, n) == {names[j] : j \in 1..n}

\* What a download call leaves behind and reports.
DownloadOut(d, f, status, dest, written, fetched) ==
    [dirs |-> d, files |-> f, status |-> status, dest |-> dest,
     written |-> written, fetched |-> fetched]

\* path.mkdir(parents=True, exist_ok=True)
mkdir(d, path) == d \cup {path}

\* The download of the WHI and Thuillier notebooks: one requests.get, whose
\* body is written whatever the status of the response.  With path None the
\* file goes to a temporary directory that is removed when the call returns.
download_single(file, url, path, resp, d, f) ==
    LET raw_data == IF resp[1] = "ok" THEN "data" ELSE "errbody"
        fetched == << <<url, "">> >>
    IN  IF path = None
        THEN DownloadOut(d, f, "ok", TmpDir, {file}, fetched)
        ELSE DownloadOut(mkdir(d, path),
                         WriteRaw(f, path, <<file>>, <<raw_data>>, 1),
                         "ok", path, {file}, fetched)

whi_download(url, path, resp, d, f) ==
    download_single(RawFiles(WHI)[1], url, path, resp, d, f)

thuillier_download(url, path, resp, d, f) ==
    download_single(RawFiles(THUILLIER)[1], url, path, resp, d, f)

\* The Meftah download: requests.get(DATA_URL), then zlib.decompress, which
\* raises on a body that is not a gzip stream, before anything is written.
meftah_download(url, path, resp, d, f) ==
    LET file == RawFiles(MEFTAH)[1]
        fetched == << <<DATA_URL, "">> >>
    IN  IF resp[1] # "ok"
        THEN DownloadOut(d, f, "zlib.error", None, {}, fetched)
        ELSE IF path = None
        THEN DownloadOut(d, f, "ok", TmpDir, {file}, fetched)
        ELSE DownloadOut(mkdir(d, path),
                         WriteRaw(f, path, <<file>>, <<"data">>, 1),
                         "ok", path, {file}, fetched)

\* Number of leading "ok" entries of a response list.
RECURSIVE LeadingOk(_, _)
LeadingOk(resp, j) ==
    IF j > Len(resp) \/ resp[j] # "ok" THEN 0 ELSE 1 + LeadingOk(resp, j + 1)

\* The SOLID download: the directory is created, then the files are fetched
\* one by one with urllib.request.urlopen, which raises on a failed
\* transfer; the files fetched before stay.
solid_download(url, path, resp, d, f) ==
    LET n == LeadingOk(resp, 1)
        all == n = Len(SOLID_FILES)
        status == IF all THEN "ok" ELSE "URLError"
        fetched == [j \in 1..(IF all THEN n ELSE n + 1) |-> <<url, SOLID_FILES[j]>>]
        bodies == [j \in 1..Len(SOLID_FILES) |-> "data"]
    IN  IF path = None
        THEN DownloadOut(d, f, status, TmpDir, NamesOf(SOLID_FILES, n), fetched)
        ELSE DownloadOut(mkdir(d, path),
                         WriteRaw(f, path, SOLID_FILES, bodies, n),
                         status, path, NamesOf(SOLID_FILES, n), fetched)

\* The TSIS-1 FSE download: a path that is not an existing directory is
\* refused; each of the two files is fetched with requests.get and its body
\* written whatever the status.
fse_download(url, path, resp, d, f) ==
    LET names == RawFiles(FSE)
        n == Len(names)
        bodies == [j \in 1..n |-> IF resp[j] = "ok" THEN "data" ELSE "errbody"]
        fetched == [j \in 1..n |-> <<url, names[j]>>]
    IN  IF path = None
        THEN DownloadOut(d, f, "ok", TmpDir, NamesOf(names, n), fetched)
        ELSE IF path \notin d
        THEN DownloadOut(d, f, "ValueError", None, {}, <<>>)
        ELSE DownloadOut(d, WriteRaw(f, path, names, bodies, n),
                         "ok", path, NamesOf(names, n), fetched)

download(a, url, path, resp, d, f) ==
    CASE a = WHI -> whi_download(url, path, resp, d, f)
      [] a = SOLID -> solid_download(url, path, resp, d, f)
      [] a = MEFTAH -> meftah_download(url, path, resp, d, f)
      [] a = THUILLIER -> thuillier_download(url, path, resp, d, f)
      [] a = FSE -> fse_download(url, path, resp, d, f)

\* The transport responses a download may meet, one per file.  urlopen
\* stops at the first failed transfer, so for SOLID the responses after it
\* are never requested and are all taken to be failures; the first failure
\* is one of the first MaxFail transfers or the last one, or there is none.
Responses(a) ==
    LET n == Len(RawFiles(a)) IN
    IF a = SOLID
    THEN {[j \in 1..n |-> IF j < k THEN "ok" ELSE "error"] :
             k \in (1..MaxFail) \cup {n, n + 1}}
    ELSE [1..n -> {"ok", "error"}]

(***************************************************************************)
(* Dates, strftime and the strings built from them.                        *)
(***************************************************************************)
DigitSeq == <<"0", "1", "2", "3", "4", "5", "6", "7", "8", "9">>

\* A faulty variant of ZeroPad: the decimal digits of n >= 0 without padding.
RECURSIVE Unpadded(_, _)
Unpadded(n, width) ==
    IF n < 10 THEN <<DigitSeq[n + 1]>>
    ELSE Unpadded(n \div 10, width - 1) \o <<DigitSeq[(n % 10) + 1]>>

\* n as a zero-padded decimal number of the given width (%Y, %m, %d).
RECURSIVE ZeroPad(_, _)
ZeroPad(n, width) ==
    IF width = 0 THEN <<>>
    ELSE ZeroPad(n \div 10, width - 1) \o <<DigitSeq[(n % 10) + 1]>>

\* x.strftime("%Y-%m-%d") of the date <<year, month, day>>
strftime_Ymd(x) ==
    ZeroPad(x[1], 4) \o <<"-">> \o ZeroPad(x[2], 2) \o <<"-">> \o ZeroPad(x[3], 2)

\* " to ".join([start, end] formatted)
observation_period(start, end) ==
    strftime_Ymd(start) \o <<" ", "t", "o", " ">> \o strftime_Ymd(end)

\* s.replace(a, b) for single characters a and b
replace(s, a, b) == [i \in 1..Len(s) |-> IF s[i] = a THEN b ELSE s[i]]

DotNc == <<".", "n", "c">>

WHI_2008_TIME_PERIOD ==
    << [identifier |-> <<"s", "u", "n", "s", "p", "o", "t", " ", "a", "c", "t", "i", "v", "e">>,
        start |-> <<2008, 3, 25>>, end |-> <<2008, 3, 29>>],
       [identifier |-> <<"f", "a", "c", "u", "l", "a", "e", " ", "a", "c", "t", "i", "v", "e">>,
        start |-> <<2008, 3, 29>>, end |-> <<2008, 4, 4>>],
       [identifier |-> <<"q", "u", "i", "e", "t", " ", "s", "u", "n">>,
        start |-> <<2008, 4, 10>>, end |-> <<2008, 4, 16>>] >>

Binned == <<"b", "i", "n", "n", "e", "d">>

(***************************************************************************)
(* The builder, tengen.to_dataset.  Its code is not part of the notebooks; *)
(* here it only assembles the dataset from its arguments and stamps the    *)
(* provenance attributes.                                                  *)
(***************************************************************************)
to_dataset(ssi, w, data_url, attrs, t) ==
    [kind |-> "nc", ssi |-> ssi, w |-> w, t |-> t, attrs |-> attrs,
     data_url |-> data_url, data_url_datetime |-> "now", history |-> "created"]

(***************************************************************************)
(* The format steps.                                                       *)
(***************************************************************************)
NoReturn == [kind |-> "None"]
ReturnList(l) == [kind |-> "list", value |-> l]
ReturnDataset(ds) == [kind |-> "dataset", value |-> ds]

\* What a format call leaves behind and reports: the builder calls it made
\* (by their results), the files it wrote (name and sub-range label, in
\* order) and the value it returned.
FormatOut(f, status, calls, written, ret) ==
    [files |-> f, status |-> status, calls |-> calls, written |-> written,
     ret |-> ret]

\* A raw file that is there and holds data (not the body of an error page).
Readable(f, dir, name) ==
    /\ <<dir, name>> \in DOMAIN f
    /\ f[<<dir, name>>].kind = "raw"
    /\ f[<<dir, name>>].body = "data"

\* A faulty variant of WriteDatasets that touches the history attribute of a
\* dataset before writing it.
WriteDatasets_touched(f, dir, names, datasets, n) ==
    LET new == {<<dir, names[j]>> : j \in 1..n}
        idx(x) == CHOOSE j \in 1..n : x = <<dir, names[j]>>
    IN  [x \in DOMAIN f \cup new |->
            IF x \in new THEN [datasets[idx(x)] EXCEPT !.history = "touched"]
            ELSE f[x]]

\* dataset.to_netcdf(dir / name) for the first n datasets of a list
WriteDatasets(f, dir, names, datasets, n) ==
    LET new == {<<dir, names[j]>> : j \in 1..n}
        idx(x) == CHOOSE j \in 1..n : x = <<dir, names[j]>>
    IN  [x \in DOMAIN f \cup new |-> IF x \in new THEN datasets[idx(x)] ELSE f[x]]

Written(names, labels, n) == [j \in 1..n |-> [name |-> names[j], label |-> labels[j]]]

\* A multi-output loop that stops at the first file it cannot read
\* (firstBad, or n + 1) or at the first write that fails (wfail, or 0):
\* iteration j reads, builds, then writes or appends.
LoopOut(f, path, n, firstBad, wfail, names, labels, datasets) ==
    LET wstop == IF path = None \/ wfail = 0 THEN n + 1 ELSE wfail
        nbuilt == IF firstBad <= wstop THEN firstBad - 1
                  ELSE IF wstop <= n THEN wstop ELSE n
        nwritten == IF path = None THEN 0
                    ELSE IF firstBad <= wstop THEN firstBad - 1
                    ELSE IF wstop <= n THEN wstop - 1 ELSE n
        status == IF firstBad <= n /\ firstBad <= wstop THEN "ReadError"
                  ELSE IF wstop <= n THEN "IOError" ELSE "ok"
    IN  FormatOut(IF path = None THEN f
                  ELSE WriteDatasets(f, path, names, datasets, nwritten),
                  status,
                  SubSeq(datasets, 1, nbuilt),
                  Written(names, labels, nwritten),
                  IF status = "ok" /\ path = None
                  THEN ReturnList(datasets) ELSE NoReturn)

\* A faulty variant of whi_format that does not look at the path before it
\* reads the table and builds the datasets.
whi_format_unchecked(data, path, wfail, d, f) ==
    LET n == Len(WHI_2008_TIME_PERIOD)
        period(k) == WHI_2008_TIME_PERIOD[k]
        dataset(k) ==
            to_dataset([column |-> k - 1, units |-> "W / m ** 2 / nm"],
                       [column |-> 0, units |-> "nm"],
                       DATA_URL,
                       [title |-> <<"TITLE", period(k).identifier>>,
                        institution |-> "INSTITUTION",
                        source |-> "SOURCE",
                        references |-> "REFERENCES",
                        observation_period |->
                            observation_period(period(k).start, period(k).end)],
                       None)
        names == [k \in 1..n |->
                    <<WHI, <<"-">> \o replace(period(k).identifier, " ", "_") \o DotNc>>]
        labels == [k \in 1..n |-> period(k).identifier]
    IN  IF ~Readable(f, data, RawFiles(WHI)[1])
        THEN FormatOut(f, "ReadError", <<>>, <<>>, NoReturn)
        ELSE LoopOut(f, path, n, n + 1,
                     IF path # None /\ path \notin d THEN 1 ELSE wfail,
                     names, labels, [k \in 1..n |-> dataset(k)])

\* The WHI format: the path must be a directory; the table is read once;
\* one dataset is built per time period and written at once, or appended to
\* the list that is returned.
whi_format(data, path, wfail, d, f) ==
    LET n == Len(WHI_2008_TIME_PERIOD)
        period(k) == WHI_2008_TIME_PERIOD[k]
        time_period_index(k) == k - 1
        dataset(k) ==
            to_dataset([column |-> time_period_index(k), units |-> "W / m ** 2 / nm"],
                       [column |-> 0, units |-> "nm"],
                       DATA_URL,
                       [title |-> <<"TITLE", period(k).identifier>>,
                        institution |-> "INSTITUTION",
                        source |-> "SOURCE",
                        references |-> "REFERENCES",
                        observation_period |->
                            observation_period(period(k).start, period(k).end)],
                       None)
        names == [k \in 1..n |->
                    <<WHI, <<"-">> \o replace(period(k).identifier, " ", "_") \o DotNc>>]
        labels == [k \in 1..n |-> period(k).identifier]
    IN  IF path # None /\ path \notin d
        THEN FormatOut(f, "ValueError", <<>>, <<>>, NoReturn)
        ELSE IF ~Readable(f, data, RawFiles(WHI)[1])
        THEN FormatOut(f, "ReadError", <<>>, <<>>, NoReturn)
        ELSE LoopOut(f, path, n, n + 1, wfail, names, labels,
                     [k \in 1..n |-> dataset(k)])

\* The TSIS-1 FSE format: the path must be a directory; each of the two
\* files is opened, its units repaired, its dataset built and written at
\* once, or appended to the list that is returned.
fse_format(data, path, wfail, d, f) ==
    LET raw == RawFiles(FSE)
        n == Len(raw)
        binned(j) == FSE_FILENAMES[j] = "binned_fs_"
        bad == {j \in 1..n : ~Readable(f, data, raw[j])}
        firstBad == IF bad = {} THEN n + 1
                    ELSE CHOOSE j \in bad : \A k \in bad : j <= k
        dataset(j) ==
            to_dataset([file |-> raw[j],
                        units |-> format_missing_carats_units_fse(
                                      <<"W", " ", "m", "-", "2", " ", "n", "m", "-", "1">>)],
                       [file |-> raw[j], units |-> "nm"],
                       DATA_URL,
                       [title |-> <<"TITLE", IF binned(j) THEN Binned ELSE <<>> >>,
                        institution |-> "INSTITUTION",
                        source |-> "SOURCE",
                        references |-> "REFERENCES"],
                       None)
        names == [j \in 1..n |->
                    IF binned(j) THEN <<FSE, <<"_">> \o Binned \o DotNc>>
                    ELSE <<FSE, DotNc>>]
        labels == [j \in 1..n |-> IF binned(j) THEN Binned ELSE <<>>]
    IN  IF path # None /\ path \notin d
        THEN FormatOut(f, "ValueError", <<>>, <<>>, NoReturn)
        ELSE LoopOut(f, path, n, firstBad, wfail, names, labels,
                     [j \in 1..n |-> dataset(j)])

\* A faulty variant of SingleOut that returns the dataset in both cases.
SingleOut_returning(a, ds, path, wfail, d, f) ==
    LET name == <<a, DotNc>> IN
    IF path = None
    THEN FormatOut(f, "ok", <<ds>>, <<>>, ReturnDataset(ds))
    ELSE IF path \notin d \/ wfail = 1
    THEN FormatOut(f, "IOError", <<ds>>, <<>>, NoReturn)
    ELSE FormatOut(WriteDatasets(f, path, <<name>>, <<ds>>, 1), "ok", <<ds>>,
                   Written(<<name>>, << <<>> >>, 1), ReturnDataset(ds))

\* A single-output format once its dataset is built: written to
\* path / "{IDENTIFIER}.nc", which fails when path is no directory or the
\* write fails, or returned.
SingleOut(a, ds, path, wfail, d, f) ==
    LET name == <<a, DotNc>> IN
    IF path = None
    THEN FormatOut(f, "ok", <<ds>>, <<>>, ReturnDataset(ds))
    ELSE IF path \notin d \/ wfail = 1
    THEN FormatOut(f, "IOError", <<ds>>, <<>>, NoReturn)
    ELSE FormatOut(WriteDatasets(f, path, <<name>>, <<ds>>, 1), "ok", <<ds>>,
                   Written(<<name>>, << <<>> >>, 1), NoReturn)

\* The SOLID format: every *.nc file of the data directory is opened and
\* merged, whichever and however many they are.
solid_format(data, path, wfail, d, f) ==
    LET found == {x \in DOMAIN f : x[1] = data /\ f[x].kind = "raw"}
        ds == to_dataset([merged |-> {x[2] : x \in found}, units |-> "ssi_units"],
                         [merged |-> {x[2] : x \in found}, units |-> "w_units"],
                         DATA_URL,
                         [title |-> <<"TITLE", <<>> >>,
                          institution |-> "INSTITUTION",
                          source |-> "SOURCE",
                          references |-> "REFERENCES",
                          observation_period |-> "start - end"],
                         "date_range")
    IN  IF \E x \in found : f[x].body # "data"
        THEN FormatOut(f, "ReadError", <<>>, <<>>, NoReturn)
        ELSE IF found = {}
        THEN FormatOut(f, "AttributeError", <<>>, <<>>, NoReturn)
        ELSE SingleOut(SOLID, ds, path, wfail, d, f)

\* The Meftah and Thuillier formats: one table, one dataset.
meftah_format(data, path, wfail, d, f) ==
    LET ds == to_dataset([column |-> 1, units |-> "W / m ** 2 / nm"],
                         [column |-> 0, units |-> "nm"],
                         DATA_URL,
                         [title |-> <<"TITLE", <<>> >>,
                          institution |-> "INSTITUTION",
                          source |-> "SOURCE",
                          references |-> "REFERENCES",
                          observation_period |->
                              observation_period(<<2008, 4, 5>>, <<2016, 12, 31>>)],
                         None)
    IN  IF ~Readable(f, data, RawFiles(MEFTAH)[1])
        THEN FormatOut(f, "ReadError", <<>>, <<>>, NoReturn)
        ELSE SingleOut(MEFTAH, ds, path, wfail, d, f)

thuillier_format(data, path, wfail, d, f) ==
    LET ds == to_dataset([column |-> 1, units |-> "microwatt / cm ** 2 / nm"],
                         [column |-> 0, units |-> "nm"],
                         DATA_URL,
                         [Conventions |-> "CF-1.10",
                          title |-> <<"TITLE", <<>> >>,
                          institution |-> "INSTITUTION",
                          source |-> "SOURCE",
                          references |-> "REFERENCES"],
                         None)
    IN  IF ~Readable(f, data, RawFiles(THUILLIER)[1])
        THEN FormatOut(f, "ReadError", <<>>, <<>>, NoReturn)
        ELSE SingleOut(THUILLIER, ds, path, wfail, d, f)

format(a, data, path, wfail, d, f) ==
    CASE a = WHI -> whi_format(data, path, wfail, d, f)
      [] a = SOLID -> solid_format(data, path, wfail, d, f)
      [] a = MEFTAH -> meftah_format(data, path, wfail, d, f)
      [] a = THUILLIER -> thuillier_format(data, path, wfail, d, f)
      [] a = FSE -> fse_format(data, path, wfail, d, f)

\* How many datasets an adapter yields.
NOutputs(a) ==
    CASE a = WHI -> Len(WHI_2008_TIME_PERIOD)
      [] a = FSE -> Len(FSE_FILENAMES)
      [] OTHER -> 1

(***************************************************************************)
(* The adapters as a state machine: the calls the Run section and other    *)
(* callers make, in any order, on the cache directories of one notebook.   *)
(***************************************************************************)
InitFs ==
    /\ adapter \in Adapters
    /\ dirs = {}
    /\ files = <<>>
    /\ outcome = [op |-> "none"]
    /\ UnitsIdle
    /\ DataIdle
    /\ RunIdle

\* original_data_dir.mkdir(parents=True, exist_ok=True), and the same for
\* the formatted directory
MkDir(p) ==
    /\ dirs' = mkdir(dirs, p)
    /\ outcome' = [op |-> "mkdir", path |-> p]
    /\ UNCHANGED <<adapter, files, unitVars, dataVars, runVars>>

\* download(url, path), meeting the transport responses resp
Download(url, path, resp) ==
    LET r == download(adapter, url, path, resp, dirs, files) IN
    /\ dirs' = r.dirs
    /\ files' = r.files
    /\ outcome' = [op |-> "download", url |-> url, path |-> path, resp |-> resp,
                   existed |-> path \in dirs, status |-> r.status,
                   dest |-> r.dest, written |-> r.written, fetched |-> r.fetched]
    /\ UNCHANGED <<adapter, unitVars, dataVars, runVars>>

\* format(data, path), whose wfail-th write fails (0: none does)
Format(data, path, wfail) ==
    LET r == format(adapter, data, path, wfail, dirs, files) IN
    /\ files' = r.files
    /\ outcome' = [op |-> "format", data |-> data, path |-> path, wfail |-> wfail,
                   status |-> r.status, calls |-> r.calls,
                   written |-> r.written, ret |-> r.ret]
    /\ UNCHANGED <<adapter, dirs, unitVars, dataVars, runVars>>

Next ==
    \/ \E p \in {RawDir, FormattedDir} : MkDir(p)
    \/ \E url \in Urls, path \in {None, RawDir}, resp \in Responses(adapter) :
          Download(url, path, resp)
    \/ \E path \in {None, FormattedDir} :
          \E wfail \in (IF path = None THEN {0} ELSE 0..NOutputs(adapter)) :
              Format(RawDir, path, wfail)

Spec == InitFs /\ [][Next]_vars

(***************************************************************************)
(* The Run section of the notebooks.  Besides the five adapters there is   *)
(* the WHI notebook that names its steps download_raw_data and             *)
(* format_raw_data; it has the IDENTIFIER of the WHI adapter.  Several     *)
(* notebooks may be run at once, each by a kernel of its own, on one       *)
(* cache; the directories tengen.RAW_DATA_DIR and                          *)
(* tengen.FORMATTED_DATA_DIR themselves are taken to exist.                *)
(***************************************************************************)
WHI_OLD == "whi_2008 (download_raw_data)"
Notebooks == Adapters \cup {WHI_OLD}

IDENTIFIER(nb) == IF nb = WHI_OLD THEN WHI ELSE nb

\* UPDATE_CACHE as the notebook ships it
UPDATE_CACHE(nb) == nb = WHI_OLD

RAW_DATA_DIR == "RAW_DATA_DIR/"
FORMATTED_DATA_DIR == "FORMATTED_DATA_DIR/"

\* A faulty variant of raw_data_dir that leaves the IDENTIFIER out.
raw_data_dir_shared(nb) == RAW_DATA_DIR

\* tengen.RAW_DATA_DIR / IDENTIFIER
raw_data_dir(nb) == RAW_DATA_DIR \o IDENTIFIER(nb)

\* tengen.FORMATTED_DATA_DIR / IDENTIFIER
formatted_data_dir(nb) == FORMATTED_DATA_DIR \o IDENTIFIER(nb)

\* The name tempfile.TemporaryDirectory() gives the directory of a run.
tmpdir(nb) == "tmp/" \o nb

\* download_raw_data of the WHI notebook that has it
download_raw_data(url, path, resp, d, f) ==
    download_single(RawFiles(WHI)[1], url, path, resp, d, f)

\* format_raw_data of that notebook: the path must be a directory, the table
\* is read, and the first builder call passes the keyword url, which the
\* builder does not have.
format_raw_data(raw_data, path, wfail, d, f) ==
    LET period == WHI_2008_TIME_PERIOD[1]
        call == [kind |-> "TypeError",
                 keywords |-> {"ssi", "w", "url", "attrs"},
                 url |-> DATA_URL,
                 attrs |-> [title |-> <<"TITLE", period.identifier>>,
                            institution |-> "INSTITUTION",
                            source |-> "SOURCE",
                            references |-> "REFERENCES",
                            observation_period |->
                                observation_period(period.start, period.end)]]
    IN  IF path # None /\ path \notin d
        THEN FormatOut(f, "ValueError", <<>>, <<>>, NoReturn)
        ELSE IF ~Readable(f, raw_data, RawFiles(WHI)[1])
        THEN FormatOut(f, "ReadError", <<>>, <<>>, NoReturn)
        ELSE FormatOut(f, "TypeError", <<call>>, <<>>, NoReturn)

\* The statements of the Run cell, in the order they are executed.
RunCell(nb, uc) ==
    IF ~uc THEN <<"tmpdir", "download", "format", "cleanup">>
    ELSE IF nb = WHI_OLD
    THEN <<"mkdir_raw", "mkdir_formatted", "download", "format">>
    ELSE <<"mkdir_raw", "download", "mkdir_formatted", "format">>

\* What a statement of the Run cell did.
Done(d, f, status, dest, raw, fetched, calls, written, ret) ==
    [dirs |-> d, files |-> f, status |-> status, dest |-> dest, raw |-> raw,
     fetched |-> fetched, calls |-> calls, written |-> written, ret |-> ret]

\* The effect of one statement of the Run cell of notebook nb on the
\* directories d and files f, the download meeting the responses resp and
\* the wfail-th write of format failing.
Exec(nb, uc, stmt, resp, wfail, d, f) ==
    LET data == IF uc THEN raw_data_dir(nb) ELSE tmpdir(nb)
        path == IF uc THEN formatted_data_dir(nb) ELSE None
    IN  CASE stmt = "mkdir_raw" ->
                Done(mkdir(d, raw_data_dir(nb)), f, "ok", None, {}, <<>>, <<>>, <<>>, NoReturn)
          [] stmt = "mkdir_formatted" ->
                Done(mkdir(d, formatted_data_dir(nb)), f, "ok", None, {}, <<>>, <<>>, <<>>, NoReturn)
          [] stmt = "tmpdir" ->
                Done(d \cup {tmpdir(nb)}, f, "ok", None, {}, <<>>, <<>>, <<>>, NoReturn)
          [] stmt = "download" ->
                LET r == IF nb = WHI_OLD
                         THEN download_raw_data(DATA_URL, data, resp, d, f)
                         ELSE download(nb, DATA_URL, data, resp, d, f)
                IN  Done(r.dirs, r.files, r.status, r.dest, r.written, r.fetched,
                         <<>>, <<>>, NoReturn)
          [] stmt = "format" ->
                LET r == IF nb = WHI_OLD
                         THEN format_raw_data(data, path, wfail, d, f)
                         ELSE format(nb, data, path, wfail, d, f)
                IN  Done(d, r.files, r.status, path, {}, <<>>, r.calls, r.written, r.ret)
          [] stmt = "cleanup" ->
                Done(d \ {tmpdir(nb)},
                     [x \in {y \in DOMAIN f : y[1] # tmpdir(nb)} |-> f[x]],
                     "ok", None, {}, <<>>, <<>>, <<>>, NoReturn)

InitRun ==
    /\ procs \in {{a, b} : a, b \in Notebooks}
    /\ update_cache \in [procs -> BOOLEAN]
    /\ pc = [nb \in procs |-> 1]
    /\ log = [nb \in procs |-> <<>>]
    /\ runs = [nb \in procs |-> [n |-> 1, ok |-> TRUE, first |-> {}]]
    /\ FsIdle
    /\ UnitsIdle
    /\ DataIdle

\* Where the Run cell goes on after a statement: to the next one, and when
\* the statement raised, out of the cell, through the exit of the with
\* block when there is one.
Advance(nb, status) ==
    LET cell == RunCell(nb, update_cache[nb]) IN
    IF status = "ok" THEN pc[nb] + 1
    ELSE IF update_cache[nb] THEN Len(cell) + 1
    ELSE Len(cell)

\* Notebook nb executes the statement it is at, which is stmt.
Step(nb, stmt, resp, wfail) ==
    LET r == Exec(nb, update_cache[nb], stmt, resp, wfail, dirs, files) IN
    /\ nb \in procs
    /\ pc[nb] <= Len(RunCell(nb, update_cache[nb]))
    /\ RunCell(nb, update_cache[nb])[pc[nb]] = stmt
    /\ dirs' = r.dirs
    /\ files' = r.files
    /\ pc' = [pc EXCEPT ![nb] = Advance(nb, r.status)]
    /\ log' = [log EXCEPT ![nb] =
                   Append(@, [stmt |-> stmt, resp |-> resp, wfail |-> wfail,
                              status |-> r.status, dest |-> r.dest, raw |-> r.raw,
                              fetched |-> r.fetched, calls |-> r.calls,
                              written |-> r.written, ret |-> r.ret])]
    /\ UNCHANGED <<adapter, outcome, procs, update_cache, runs, unitVars, dataVars>>

RunMkdirRaw(nb) == Step(nb, "mkdir_raw", <<>>, 0)
RunMkdirFormatted(nb) == Step(nb, "mkdir_formatted", <<>>, 0)
RunTmpdir(nb) == Step(nb, "tmpdir", <<>>, 0)
RunDownload(nb) == \E resp \in Responses(IDENTIFIER(nb)) : Step(nb, "download", resp, 0)
RunFormat(nb) ==
    \E wfail \in (IF update_cache[nb] THEN 0..NOutputs(IDENTIFIER(nb)) ELSE {0}) :
        Step(nb, "format", <<>>, wfail)
RunCleanup(nb) == Step(nb, "cleanup", <<>>, 0)

NextRun ==
    \/ \E nb \in procs : RunMkdirRaw(nb)
    \/ \E nb \in procs : RunMkdirFormatted(nb)
    \/ \E nb \in procs : RunTmpdir(nb)
    \/ \E nb \in procs : RunDownload(nb)
    \/ \E nb \in procs : RunFormat(nb)
    \/ \E nb \in procs : RunCleanup(nb)

SpecRun == InitRun /\ [][NextRun]_vars

(***************************************************************************)
(* A notebook run again and again on the cache its earlier runs left.      *)
(* log[nb] holds the statements of the run in progress; runs[nb] holds the *)
(* number of that run, whether every statement of the earlier runs ended   *)
(* without an exception, and the files the first run left in the cache.    *)
(***************************************************************************)
\* The Run section of nb has been left, by its end or by an exception.
RunOver(nb) == pc[nb] > Len(RunCell(nb, update_cache[nb]))

\* No statement of the run of nb in progress has raised.
RunOk(nb) == \A i \in 1..Len(log[nb]) : log[nb][i].status = "ok"

\* The files under RAW_DATA_DIR/IDENTIFIER and FORMATTED_DATA_DIR/IDENTIFIER
\* of notebook nb, as <<directory, file name>>.
CacheNames(nb, f) ==
    {x \in DOMAIN f : x[1] \in {raw_data_dir(nb), formatted_data_dir(nb)}}

InitRerun ==
    /\ InitRun
    /\ Cardinality(procs) = 1

\* The Run section of nb is executed once more, from its first statement.
Rerun(nb) ==
    /\ RunOver(nb)
    /\ runs[nb].n < MaxRuns
    /\ runs' = [runs EXCEPT ![nb] =
                    [n |-> @.n + 1,
                     ok |-> @.ok /\ RunOk(nb),
                     first |-> IF @.n = 1 THEN CacheNames(nb, files) ELSE @.first]]
    /\ pc' = [pc EXCEPT ![nb] = 1]
    /\ log' = [log EXCEPT ![nb] = <<>>]
    /\ UNCHANGED <<procs, update_cache, fsVars, unitVars, dataVars>>

NextRerun ==
    \/ \E nb \in procs : RunMkdirRaw(nb)
    \/ \E nb \in procs : RunMkdirFormatted(nb)
    \/ \E nb \in procs : RunTmpdir(nb)
    \/ \E nb \in procs : RunDownload(nb)
    \/ \E nb \in procs : RunFormat(nb)
    \/ \E nb \in procs : RunCleanup(nb)
    \/ \E nb \in procs : Rerun(nb)

SpecRerun == InitRerun /\ [][NextRerun]_vars

(***************************************************************************)
(* The format steps at the level of the data they read and hand to the     *)
(* builder.                                                                *)
(***************************************************************************)
\* date(y, m, d).toordinal(): days since 0001-01-01, that day being 1.
IsLeap(y) == (y % 4 = 0) /\ ((y % 100 # 0) \/ (y % 400 = 0))
DaysBeforeMonth == <<0, 31, 59, 90, 120, 151, 181, 212, 243, 273, 304, 334>>
toordinal(x) ==
    LET y == x[1] - 1 IN
    y * 365 + (y \div 4) - (y \div 100) + (y \div 400)
      + DaysBeforeMonth[x[2]] + (IF x[2] > 2 /\ IsLeap(x[1]) THEN 1 ELSE 0)
      + x[3]

\* pd.date_range(start, end, freq="D"), dates as ordinals
date_range(start, end) ==
    IF end < start THEN <<>> ELSE [k \in 1..(end - start + 1) |-> start + k - 1]

\* A faulty variant of solid_start that counts one day too many.
solid_start_size(end, size) == end - size

\* start = end - timedelta(merged.time.size - 1)
solid_start(end, size) == end - (size - 1)

\* A faulty variant of transpose that also reverses the first axis.
transpose_reversed(m) ==
    IF Len(m) = 0 THEN <<>>
    ELSE [j \in 1..Len(m[1]) |-> [i \in 1..Len(m) |-> m[Len(m) + 1 - i][j]]]

\* values.transpose() of a two-dimensional array
transpose(m) ==
    IF Len(m) = 0 THEN <<>>
    ELSE [j \in 1..Len(m[1]) |-> [i \in 1..Len(m) |-> m[i][j]]]

\* The merged SOLID dataset: data is laid out along dims, its value at a
\* wavelength index and a time index is the pair of the two.
MergedData(jb) ==
    IF jb.dims[1] = "wavelength"
    THEN [i \in 1..jb.nw |-> [j \in 1..jb.nt |-> [w |-> i, t |-> j]]]
    ELSE [j \in 1..jb.nt |-> [i \in 1..jb.nw |-> [w |-> i, t |-> j]]]

\* merged.data.values.shape
merged_shape(jb) ==
    IF jb.dims[1] = "wavelength" THEN <<jb.nw, jb.nt>> ELSE <<jb.nt, jb.nw>>

\* What the SOLID format passes to the builder.
solid_built(jb) ==
    LET end == toordinal(<<2014, 12, 30>>)
        start == solid_start(end, jb.nt)
    IN  [adapter |-> SOLID,
         status |-> "ok",
         ssi |-> [magnitude |-> transpose(MergedData(jb)),
                  shape |-> <<merged_shape(jb)[2], merged_shape(jb)[1]>>,
                  units |-> format_missing_carats_units(jb.units)],
         w |-> [magnitude |-> [i \in 1..jb.nw |-> [nan |-> FALSE, v |-> i]],
                units |-> "w_units"],
         t |-> date_range(start, end),
         observation_period |-> <<start, " - ", end>>]

\* A field of the Meftah table: a number, in hundredths of the unit, or the
\* token "---".
Num(v) == [tok |-> "num", v |-> v]
Missing == [tok |-> "---"]
NaN == [nan |-> TRUE]
Float(v) == [nan |-> FALSE, v |-> v]

\* np.genfromtxt(missing_values="---", filling_values=np.nan) on one field
genfromtxt_field(x) == IF x.tok = "---" THEN NaN ELSE Float(x.v)

\* 165.0, in hundredths of a nanometre
MeftahMinW == 16500

\* A faulty variant of meftah_mask that drops the 165.0 nm row.
meftah_mask_strict(x) == ~x.nan /\ x.v > MeftahMinW

\* mask = wavelength >= 165.0 (a comparison with not-a-number is False)
meftah_mask(x) == ~x.nan /\ x.v >= MeftahMinW

\* A faulty variant of Masked that yields the kept entries last first.
RECURSIVE Masked_reversed(_, _, _)
Masked_reversed(col, mask, i) ==
    IF i > Len(col) THEN <<>>
    ELSE Masked_reversed(col, mask, i + 1) \o (IF mask[i] THEN <<col[i]>> ELSE <<>>)

\* a[mask] for the columns of the table, row by row
RECURSIVE Masked(_, _, _)
Masked(col, mask, i) ==
    IF i > Len(col) THEN <<>>
    ELSE (IF mask[i] THEN <<col[i]>> ELSE <<>>) \o Masked(col, mask, i + 1)

\* A faulty variant of meftah_built that masks the wavelengths only.
meftah_built_unmasked_ssi(jb) ==
    LET n == Len(jb.rows)
        wavelength == [i \in 1..n |-> genfromtxt_field(jb.rows[i].w)]
        spectral_irradiance == [i \in 1..n |-> genfromtxt_field(jb.rows[i].ssi)]
        mask == [i \in 1..n |-> meftah_mask(wavelength[i])]
    IN  [adapter |-> MEFTAH,
         status |-> "ok",
         w |-> [magnitude |-> Masked(wavelength, mask, 1), units |-> "nm"],
         ssi |-> [magnitude |-> spectral_irradiance,
                  shape |-> <<Len(spectral_irradiance)>>,
                  units |-> "W / m ** 2 / nm"],
         observation_period |-> observation_period(<<2008, 4, 5>>, <<2016, 12, 31>>)]

\* What the Meftah format passes to the builder.
meftah_built(jb) ==
    LET n == Len(jb.rows)
        wavelength == [i \in 1..n |-> genfromtxt_field(jb.rows[i].w)]
        spectral_irradiance == [i \in 1..n |-> genfromtxt_field(jb.rows[i].ssi)]
        mask == [i \in 1..n |-> meftah_mask(wavelength[i])]
    IN  [adapter |-> MEFTAH,
         status |-> "ok",
         w |-> [magnitude |-> Masked(wavelength, mask, 1), units |-> "nm"],
         ssi |-> [magnitude |-> Masked(spectral_irradiance, mask, 1),
                  shape |-> <<Len(Masked(spectral_irradiance, mask, 1))>>,
                  units |-> "W / m ** 2 / nm"],
         observation_period |-> observation_period(<<2008, 4, 5>>, <<2016, 12, 31>>)]

\* What the Thuillier format passes to the builder: the two columns of the
\* table as np.loadtxt reads them.
thuillier_built(jb) ==
    LET n == Len(jb.rows) IN
    [adapter |-> THUILLIER,
     status |-> "ok",
     w |-> [magnitude |-> [i \in 1..n |-> Float(jb.rows[i].w.v)], units |-> "nm"],
     ssi |-> [magnitude |-> [i \in 1..n |-> Float(jb.rows[i].ssi.v)],
              shape |-> <<n>>,
              units |-> "microwatt / cm ** 2 / nm"]]

\* attrs of the builder calls, at this level: the constants of the Setup
\* section, none of them empty.
NotebookAttrs ==
    [title |-> "TITLE", institution |-> "INSTITUTION", source |-> "SOURCE",
     references |-> "REFERENCES"]

(***************************************************************************)
(* The builder at the level of its data: build(ssi, w, data_url, attrs, t) *)
(* as the specification describes it.  An array comes with its shape; t is *)
(* NoTime when omitted.  The conversion of the magnitudes to the canonical *)
(* units is not part of this model: magnitudes keep their units.  Which    *)
(* error is raised when several apply is not specified: build gives the    *)
(* set of the results the call may have.                                   *)
(***************************************************************************)
NoTime == [given |-> FALSE]
Time(t) == [given |-> TRUE, values |-> t]

MandatoryAttributes ==
    {"title", "institution", "source", "references", "data_url",
     "data_url_datetime", "history"}

\* The caller's attrs merged with the provenance fields.
merged_attrs(attrs, data_url) ==
    [k \in DOMAIN attrs \cup {"data_url", "data_url_datetime", "history"} |->
        CASE k = "data_url" -> data_url
          [] k = "data_url_datetime" -> "now"
          [] k = "history" -> "created"
          [] OTHER -> attrs[k]]

\* A faulty variant of missing_keys that stops at the first missing key.
missing_keys_first(attrs, data_url) ==
    LET m == merged_attrs(attrs, data_url)
        all == {k \in MandatoryAttributes : k \notin DOMAIN m \/ m[k] = ""}
    IN  IF all = {} THEN {} ELSE {CHOOSE k \in all : TRUE}

\* The mandatory attributes that are absent or empty.
missing_keys(attrs, data_url) ==
    LET m == merged_attrs(attrs, data_url) IN
    {k \in MandatoryAttributes : k \notin DOMAIN m \/ m[k] = ""}

\* A faulty variant of strictly_increasing that lets equal neighbours pass.
non_decreasing(w) ==
    \A i \in 1..(Len(w) - 1) : ~w[i].nan /\ ~w[i + 1].nan /\ w[i].v <= w[i + 1].v

\* w is strictly increasing (a comparison with not-a-number is False)
strictly_increasing(w) ==
    \A i \in 1..(Len(w) - 1) : ~w[i].nan /\ ~w[i + 1].nan /\ w[i].v < w[i + 1].v

\* The length of the time axis, synthesized with one entry when t is omitted.
time_count(t) == IF t.given THEN Len(t.values) ELSE 1

\* ssi fits the axes: along w when one-dimensional, (t, w) or (w, t) when
\* two-dimensional.
aligned(ssi, nt, nw) ==
    IF Len(ssi.shape) = 1 THEN ssi.shape = <<nw>>
    ELSE ssi.shape = <<nt, nw>> \/ ssi.shape = <<nw, nt>>

\* A two-dimensional ssi brought into (t, w) order, going by its shape.
orient(ssi, nt, nw) ==
    IF ssi.shape = <<nt, nw>> THEN ssi.magnitude ELSE transpose(ssi.magnitude)

build(ssi, w, data_url, attrs, t) ==
    LET nw == Len(w.magnitude)
        nt == time_count(t)
        missing == missing_keys(attrs, data_url)
        errors ==
            (IF strictly_increasing(w.magnitude) /\ aligned(ssi, nt, nw)
             THEN {} ELSE {"SchemaViolationError"})
            \cup (IF missing = {} THEN {} ELSE {"MissingMetadataError"})
        dataset ==
            [ssi |-> [magnitude |-> IF Len(ssi.shape) = 1 THEN ssi.magnitude
                                    ELSE orient(ssi, nt, nw),
                      dims |-> IF Len(ssi.shape) = 1 THEN <<"w">> ELSE <<"t", "w">>,
                      units |-> ssi.units],
             w |-> w,
             t |-> t,
             attrs |-> merged_attrs(attrs, data_url)]
    IN  IF errors = {}
        THEN {[status |-> "ok", dataset |-> dataset]}
        ELSE {[status |-> e,
               missing |-> IF e = "MissingMetadataError" THEN missing ELSE {}] :
              e \in errors}

\* What a format step passed to the builder, with what the builder gave.
WithResult(b, r) ==
    [k \in DOMAIN b \cup {"result"} |-> IF k = "result" THEN r ELSE b[k]]

\* The raw data the format steps are run on.
SolidJobs ==
    {[adapter |-> SOLID, nt |-> nt, nw |-> nw, dims |-> dims, units |-> u] :
        nt \in 0..MaxRecords, nw \in 1..MaxW,
        dims \in {<<"wavelength", "time">>, <<"time", "wavelength">>},
        u \in {U_ssi, U_ssi_careted}}

\* 0.5, 164.99, 165.0 and 3000.10 nm, or a missing wavelength
MeftahWavelengths == {Num(50), Num(16499), Num(16500), Num(300010), Missing}
MeftahIrradiances == {Num(1), Num(2), Missing}
MeftahRow == [w : MeftahWavelengths, ssi : MeftahIrradiances]

\* Every table of n rows.
TablesOfLen(n) == [1..n -> MeftahRow]

\* The rows of a Thuillier table, and every table of n rows.
ThuillierRow == [w : {Num(50), Num(16500), Num(300010)}, ssi : {Num(1)}]
ThuillierTablesOfLen(n) == [1..n -> ThuillierRow]

\* Any other caller of the builder.
CALLER == "caller"

\* The attrs a caller may pass: each of the four attributes left out, empty
\* or filled in.
CallerAttrs ==
    UNION {[S -> {"", "text"}] :
           S \in SUBSET {"title", "institution", "source", "references"}}

\* Calls with a one-dimensional ssi over two wavelengths, in order or not.
AttrCalls ==
    {[adapter |-> CALLER,
      ssi |-> [magnitude |-> <<Float(1), Float(2)>>, shape |-> <<2>>,
               units |-> "W / m ** 2 / nm"],
      w |-> [magnitude |-> wm, units |-> "nm"],
      data_url |-> url, attrs |-> attrs, t |-> NoTime] :
        wm \in {<<Float(1), Float(2)>>, <<Float(2), Float(1)>>, <<Float(1), Float(1)>>},
        url \in {"", DATA_URL}, attrs \in CallerAttrs}

\* Calls with a two-dimensional ssi given as (t, w) or as (w, t).
ShapeCalls ==
    {[adapter |-> CALLER,
      ssi |-> [magnitude |-> MergedData([nt |-> nt, nw |-> nw, dims |-> dims]),
               shape |-> merged_shape([nt |-> nt, nw |-> nw, dims |-> dims]),
               units |-> "W / m ** 2 / nm"],
      w |-> [magnitude |-> [i \in 1..nw |-> Float(i)], units |-> "nm"],
      data_url |-> DATA_URL, attrs |-> NotebookAttrs,
      t |-> Time([j \in 1..nt |-> j])] :
        nt \in 1..MaxRecords, nw \in 1..MaxW,
        dims \in {<<"wavelength", "time">>, <<"time", "wavelength">>}}

InitData ==
    /\ \/ job \in SolidJobs
       \/ \E n \in 0..MaxRows : \E tb \in TablesOfLen(n) :
             job = [adapter |-> MEFTAH, rows |-> tb]
       \/ \E n \in 0..MaxRows : \E tb \in ThuillierTablesOfLen(n) :
             job = [adapter |-> THUILLIER, rows |-> tb]
       \/ job \in AttrCalls
       \/ job \in ShapeCalls
    /\ built = [adapter |-> None]
    /\ UnitsIdle
    /\ FsIdle
    /\ RunIdle

\* The format step of a notebook has read the raw data, made of it what the
\* builder takes (b) and called the builder.
FormatData(b, attrs, t) ==
    /\ built.adapter = None
    /\ \E r \in build(b.ssi, b.w, DATA_URL, attrs, t) : built' = WithResult(b, r)
    /\ UNCHANGED <<job, unitVars, fsVars, runVars>>

SolidFormat ==
    /\ job.adapter = SOLID
    /\ LET b == solid_built(job) IN
       FormatData(b, [k \in DOMAIN NotebookAttrs \cup {"observation_period"} |->
                         IF k = "observation_period" THEN b.observation_period
                         ELSE NotebookAttrs[k]],
                  Time(b.t))

MeftahFormat ==
    /\ job.adapter = MEFTAH
    /\ LET b == meftah_built(job) IN
       FormatData(b, [k \in DOMAIN NotebookAttrs \cup {"observation_period"} |->
                         IF k = "observation_period" THEN b.observation_period
                         ELSE NotebookAttrs[k]],
                  NoTime)

ThuillierFormat ==
    /\ job.adapter = THUILLIER
    /\ FormatData(thuillier_built(job),
                  [k \in DOMAIN NotebookAttrs \cup {"Conventions"} |->
                      IF k = "Conventions" THEN "CF-1.10" ELSE NotebookAttrs[k]],
                  NoTime)

\* A direct call of the builder.
ToDataset ==
    /\ job.adapter = CALLER
    /\ built.adapter = None
    /\ \E r \in build(job.ssi, job.w, job.data_url, job.attrs, job.t) :
          built' = [adapter |-> CALLER, result |-> r]
    /\ UNCHANGED <<job, unitVars, fsVars, runVars>>

NextData == SolidFormat \/ MeftahFormat \/ ThuillierFormat \/ ToDataset

SpecData == InitData /\ [][NextData]_vars

(***************************************************************************)
(* Properties of download and format.                                      *)
(***************************************************************************)
\* C4: a format call that fails leaves none of its output files behind.
C4_NoPartialOutput ==
    (outcome.op = "format" /\ outcome.status # "ok") =>
        \A j \in 1..Len(outcome.written) :
            <<outcome.path, outcome.written[j].name>> \notin DOMAIN files

\* C5: a download that meets a non-success response fails and writes no raw
\* file.
C5_ErrorResponseNotStored ==
    (outcome.op = "download" /\ \E j \in DOMAIN outcome.resp : outcome.resp[j] = "error") =>
        /\ outcome.status # "ok"
        /\ outcome.written = {}

\* C6: a download into a directory that does not exist yet creates it and
\* writes the raw files into it.
C6_DownloadCreatesDirectory ==
    (/\ outcome.op = "download"
     /\ outcome.path # None
     /\ ~outcome.existed
     /\ \A j \in DOMAIN outcome.resp : outcome.resp[j] = "ok") =>
        /\ outcome.status = "ok"
        /\ outcome.path \in dirs
        /\ \A j \in 1..Len(RawFiles(adapter)) :
              <<outcome.path, RawFiles(adapter)[j]>> \in DOMAIN files

\* The file name the naming convention gives a dataset of adapter a with
\* sub-range label l.
ConventionName(a, l) ==
    IF NOutputs(a) = 1 THEN <<a, DotNc>>
    ELSE <<a, <<"-">> \o replace(l, " ", "_") \o DotNc>>

\* C7: every file a format call writes is named IDENTIFIER.nc for a
\* single-output adapter and IDENTIFIER-label.nc, spaces as underscores, for
\* a multi-output one, and the names written by one call are distinct.
C7_FileNamingConvention ==
    outcome.op = "format" =>
        /\ \A j \in 1..Len(outcome.written) :
              outcome.written[j].name = ConventionName(adapter, outcome.written[j].label)
        /\ \A j, k \in 1..Len(outcome.written) :
              j # k => outcome.written[j].name # outcome.written[k].name

IsDigitAt(s, i) == s[i] \in Digits
\* s[off + 1 .. off + 10] reads YYYY-MM-DD
IsDateAt(s, off) ==
    /\ \A i \in {1, 2, 3, 4, 6, 7, 9, 10} : IsDigitAt(s, off + i)
    /\ s[off + 5] = "-"
    /\ s[off + 8] = "-"
\* s reads "YYYY-MM-DD to YYYY-MM-DD"
IsPeriodString(s) ==
    /\ Len(s) = 24
    /\ IsDateAt(s, 0)
    /\ SubSeq(s, 11, 14) = <<" ", "t", "o", " ">>
    /\ IsDateAt(s, 14)

WhiLabels == <<<<"s", "u", "n", "s", "p", "o", "t", " ", "a", "c", "t", "i", "v", "e">>, <<"f", "a", "c", "u", "l", "a", "e", " ", "a", "c", "t", "i", "v", "e">>, <<"q", "u", "i", "e", "t", " ", "s", "u", "n">>>>

\* C8: a WHI format call that succeeds has made exactly 3 builder calls, in
\* the order sunspot active, faculae active, quiet sun, whose
\* observation_period attributes are pairwise distinct and read
\* "YYYY-MM-DD to YYYY-MM-DD"; with path None it returns the list of these 3
\* datasets in that order.
C8_WhiThreeDatasets ==
    (adapter = WHI /\ outcome.op = "format" /\ outcome.status = "ok") =>
        /\ Len(outcome.calls) = 3
        /\ \A k \in 1..3 :
              /\ outcome.calls[k].attrs.title[2] = WhiLabels[k]
              /\ IsPeriodString(outcome.calls[k].attrs.observation_period)
        /\ \A j, k \in 1..3 :
              j # k => outcome.calls[j].attrs.observation_period
                          # outcome.calls[k].attrs.observation_period
        /\ outcome.path = None =>
              /\ outcome.ret.kind = "list"
              /\ outcome.ret.value = outcome.calls
        /\ outcome.path # None =>
              /\ outcome.ret.kind = "None"
              /\ Len(outcome.written) = 3

\* C8 witness: a WHI format call with path None has returned its 3 datasets.
C8_Witness ==
    /\ adapter = WHI
    /\ outcome.op = "format"
    /\ outcome.status = "ok"
    /\ outcome.path = None
    /\ Len(outcome.ret.value) = 3

\* C22: in every builder call of the WHI format the irradiance of the k-th
\* sub-period (k = 0, 1, 2) is the k-th irradiance column of the table, that
\* is column k + 1, column 0 being the wavelength; no dataset has the
\* wavelength column as its ssi, and the three datasets of a successful call
\* use three different columns.
C22_WhiIrradianceColumns ==
    (adapter = WHI /\ outcome.op = "format") =>
        /\ \A k \in 1..Len(outcome.calls) :
              /\ outcome.calls[k].w.column = 0
              /\ outcome.calls[k].ssi.column = k
              /\ outcome.calls[k].ssi.column # outcome.calls[k].w.column
        /\ \A j, k \in 1..Len(outcome.calls) :
              j # k => outcome.calls[j].ssi.column # outcome.calls[k].ssi.column

\* C23: the SOLID format builds a dataset only from the complete set of the
\* 20 FILES: a call that has reached the builder found every one of them in
\* the data directory and merged these files and no other; with a file
\* missing the call fails before the builder.
C23_SolidMergesAllFiles ==
    (adapter = SOLID /\ outcome.op = "format" /\ Len(outcome.calls) > 0) =>
        /\ \A j \in 1..Len(SOLID_FILES) : Readable(files, outcome.data, SOLID_FILES[j])
        /\ outcome.calls[1].ssi.merged = {SOLID_FILES[j] : j \in 1..Len(SOLID_FILES)}
        /\ outcome.calls[1].w.merged = outcome.calls[1].ssi.merged

\* C9: for a record count of at least 1 the SOLID time axis has exactly
\* record-count entries, consecutive days, the last being 2014-12-30
\* (ordinal 735597) and the first lying record-count - 1 days before it.
C9_SolidTimeAxis ==
    (built.adapter = SOLID /\ job.nt >= 1) =>
        /\ Len(built.t) = job.nt
        /\ built.t[Len(built.t)] = 735597
        /\ built.t[1] = 735597 - (job.nt - 1)
        /\ \A k \in 1..(Len(built.t) - 1) : built.t[k + 1] = built.t[k] + 1

\* C9 witness: a SOLID format of the largest record count has been built.
C9_Witness ==
    /\ built.adapter = SOLID
    /\ job.nt = MaxRecords
    /\ Len(built.t) = MaxRecords

\* The rows of the Meftah table that have a wavelength of at least 165 nm,
\* and the place of row i among them.
KeptRows(rows) ==
    {i \in 1..Len(rows) : rows[i].w.tok = "num" /\ rows[i].w.v >= 16500}
Rank(rows, i) == Cardinality({j \in KeptRows(rows) : j <= i})

\* C10: the Meftah format does not fail on "---"; the rows it passes to the
\* builder are exactly the rows whose wavelength is at least 165 nm, each
\* with its wavelength and with its irradiance, not-a-number where the
\* irradiance was "---"; no wavelength below 165 nm is passed.
C10_MeftahRows ==
    built.adapter = MEFTAH =>
        /\ built.status = "ok"
        /\ Len(built.w.magnitude) = Cardinality(KeptRows(job.rows))
        /\ Len(built.ssi.magnitude) = Cardinality(KeptRows(job.rows))
        /\ \A k \in 1..Len(built.w.magnitude) :
              ~built.w.magnitude[k].nan /\ built.w.magnitude[k].v >= 16500
        /\ \A i \in KeptRows(job.rows) :
              LET k == Rank(job.rows, i) IN
              /\ built.w.magnitude[k] = Float(job.rows[i].w.v)
              /\ job.rows[i].ssi.tok = "---" => built.ssi.magnitude[k] = NaN
              /\ job.rows[i].ssi.tok = "num" =>
                    built.ssi.magnitude[k] = Float(job.rows[i].ssi.v)

\* C10 witness: a table with a row below 165 nm, the 165.0 nm row with a
\* missing irradiance and the 3000.10 nm row has been formatted.
C10_Witness ==
    /\ built.adapter = MEFTAH
    /\ job.rows = << [w |-> Num(16499), ssi |-> Num(1)],
                     [w |-> Num(16500), ssi |-> Missing],
                     [w |-> Num(300010), ssi |-> Num(2)] >>
    /\ built.w.magnitude = <<Float(16500), Float(300010)>>
    /\ built.ssi.magnitude = <<NaN, Float(2)>>

\* C25: the w and ssi the Meftah format passes to the builder have the same
\* length, keep the order of the rows and stay paired row by row: there is a
\* strictly increasing choice of rows of the table such that the k-th
\* wavelength and the k-th irradiance both come from the k-th chosen row;
\* no row whose wavelength is missing is chosen, so no wavelength passed is
\* not-a-number.
C25_MeftahPairedRows ==
    built.adapter = MEFTAH =>
        LET n == Len(built.w.magnitude) IN
        /\ Len(built.ssi.magnitude) = n
        /\ built.ssi.shape = <<n>>
        /\ \A k \in 1..n : ~built.w.magnitude[k].nan
        /\ \E row \in [1..n -> 1..Len(job.rows)] :
              /\ \A j, k \in 1..n : j < k => row[j] < row[k]
              /\ \A k \in 1..n :
                    /\ job.rows[row[k]].w # Missing
                    /\ built.w.magnitude[k] = genfromtxt_field(job.rows[row[k]].w)
                    /\ built.ssi.magnitude[k] = genfromtxt_field(job.rows[row[k]].ssi)

\* C25 witness: a table whose middle row has no wavelength; the rows before
\* and after it are passed on, each wavelength with its own irradiance.
C25_Witness ==
    /\ built.adapter = MEFTAH
    /\ job.rows = << [w |-> Num(16500), ssi |-> Num(1)],
                     [w |-> Missing, ssi |-> Num(2)],
                     [w |-> Num(300010), ssi |-> Missing] >>
    /\ built.w.magnitude = <<Float(16500), Float(300010)>>
    /\ built.ssi.magnitude = <<Float(1), NaN>>

(***************************************************************************)
(* Properties of the Run section.                                          *)
(***************************************************************************)
\* A directory of the cache, and a cache that holds nothing.
InCache(p) ==
    \E nb \in Notebooks : p = raw_data_dir(nb) \/ p = formatted_data_dir(nb)
CacheEmpty ==
    /\ \A p \in dirs : ~InCache(p)
    /\ \A x \in DOMAIN files : ~InCache(x[1])

\* C11: running notebooks with UPDATE_CACHE as shipped does not populate the
\* cache: nothing is ever created under RAW_DATA_DIR or FORMATTED_DATA_DIR.
C11_DefaultRunLeavesCache ==
    (\A nb \in procs : update_cache[nb] = UPDATE_CACHE(nb)) => CacheEmpty

\* C19: the statements a Run section has executed are, in cache mode, the
\* first ones of create raw directory, download, create formatted
\* directory, format, in that order; in both modes format starts only
\* after a download that completed.
C19_RunOrder ==
    \A nb \in procs :
        /\ update_cache[nb] =>
              /\ Len(log[nb]) <= 4
              /\ \A i \in 1..Len(log[nb]) :
                    log[nb][i].stmt =
                        <<"mkdir_raw", "download", "mkdir_formatted", "format">>[i]
        /\ \A i \in 1..Len(log[nb]) :
              log[nb][i].stmt = "format" =>
                  \E j \in 1..(i - 1) :
                      log[nb][j].stmt = "download" /\ log[nb][j].status = "ok"

\* The statements of log l from the i-th on, executed again for notebook nb
\* in cache mode on the directories and files fs; same tells whether every
\* statement ended as the log says.
RECURSIVE Replay(_, _, _, _)
Replay(nb, l, i, fs) ==
    IF i > Len(l) THEN fs
    ELSE LET r == Exec(nb, TRUE, l[i].stmt, l[i].resp, l[i].wfail, fs.dirs, fs.files)
         IN  Replay(nb, l, i + 1,
                    [dirs |-> r.dirs, files |-> r.files,
                     same |-> fs.same /\ r.status = l[i].status])

\* The run of a from an empty cache, then the run of b.
Sequential(a, b) ==
    Replay(b, log[b], 1,
           Replay(a, log[a], 1, [dirs |-> {}, files |-> <<>>, same |-> TRUE]))

\* The files the statements logged for nb say they wrote.
FilesOf(nb) ==
    UNION {{<<log[nb][i].dest, n>> : n \in log[nb][i].raw}
              \cup {<<log[nb][i].dest, log[nb][i].written[k].name>> :
                       k \in 1..Len(log[nb][i].written)} :
           i \in 1..Len(log[nb])}

\* C18: two notebooks of different IDENTIFIER run in cache mode, their
\* statements interleaved in any order: each writes only under
\* RAW_DATA_DIR/IDENTIFIER and FORMATTED_DATA_DIR/IDENTIFIER of its own
\* IDENTIFIER, every file of the cache was written by one of them, and once
\* both are over the cache is what running one after the other leaves, in
\* either order.
C18_AdaptersIndependent ==
    \A a, b \in procs :
        (a # b /\ IDENTIFIER(a) # IDENTIFIER(b) /\ update_cache[a] /\ update_cache[b]) =>
            /\ \A i \in 1..Len(log[a]) :
                  log[a][i].dest \in {None, RAW_DATA_DIR \o IDENTIFIER(a),
                                      FORMATTED_DATA_DIR \o IDENTIFIER(a)}
            /\ DOMAIN files = FilesOf(a) \cup FilesOf(b)
            /\ FilesOf(a) \cap FilesOf(b) = {}
            /\ (RunOver(a) /\ RunOver(b)) =>
                  Sequential(a, b) = [dirs |-> dirs, files |-> files, same |-> TRUE]

\* C18 witness: SOLID and TSIS-1 FSE have both run to their end in cache
\* mode without failure, each leaving raw and formatted files.
C18_Witness ==
    /\ procs = {SOLID, FSE}
    /\ update_cache[SOLID] /\ update_cache[FSE]
    /\ RunOver(SOLID) /\ RunOver(FSE)
    /\ \A nb \in procs : \A i \in 1..Len(log[nb]) : log[nb][i].status = "ok"
    /\ <<formatted_data_dir(SOLID), <<SOLID, DotNc>>>> \in DOMAIN files
    /\ <<formatted_data_dir(FSE), <<FSE, DotNc>>>> \in DOMAIN files
    /\ <<raw_data_dir(SOLID), SOLID_FILES[20]>> \in DOMAIN files
    /\ <<raw_data_dir(FSE), RawFiles(FSE)[2]>> \in DOMAIN files

\* C29: running a notebook again in cache mode is repeatable: the
\* statements that create the two directories do not fail, on a first run
\* or on a later one that finds them there, and when a run has ended
\* without an exception after earlier runs that all ended so, the files
\* under RAW_DATA_DIR/IDENTIFIER and FORMATTED_DATA_DIR/IDENTIFIER have the
\* names they had after the first run.
C29_RerunRepeatable ==
    \A nb \in procs :
        update_cache[nb] =>
            /\ \A i \in 1..Len(log[nb]) :
                  log[nb][i].stmt \in {"mkdir_raw", "mkdir_formatted"} =>
                      log[nb][i].status = "ok"
            /\ (runs[nb].n >= 2 /\ runs[nb].ok /\ RunOver(nb) /\ RunOk(nb)) =>
                  CacheNames(nb, files) = runs[nb].first

\* C29 witness: the SOLID notebook has been run in cache mode a second time
\* or more, every run without an exception; the cache holds the raw files
\* and the formatted file of the first run.
C29_Witness ==
    /\ procs = {SOLID}
    /\ update_cache[SOLID]
    /\ runs[SOLID].n >= 2
    /\ runs[SOLID].ok
    /\ RunOver(SOLID)
    /\ RunOk(SOLID)
    /\ Len(log[SOLID]) = 4
    /\ Cardinality(runs[SOLID].first) = Len(SOLID_FILES) + 1
    /\ <<formatted_data_dir(SOLID), <<SOLID, DotNc>>>> \in DOMAIN files

(***************************************************************************)
(* Properties of the format and download calls.                            *)
(***************************************************************************)
\* C12: a format call that succeeds with a path has written every dataset it
\* produced under that path and returns None; a format call with path None
\* leaves every file as it was and, when it succeeds, returns the dataset it
\* produced, or the list of all of them for a multi-output adapter.
C12_FormatPathEffect ==
    [][outcome'.op = "format" =>
          /\ (outcome'.path # None /\ outcome'.status = "ok") =>
                /\ outcome'.ret = NoReturn
                /\ Len(outcome'.calls) = NOutputs(adapter)
                /\ Len(outcome'.written) = Len(outcome'.calls)
                /\ \A k \in 1..Len(outcome'.calls) :
                      /\ <<outcome'.path, outcome'.written[k].name>> \in DOMAIN files'
                      /\ files'[<<outcome'.path, outcome'.written[k].name>>]
                            = outcome'.calls[k]
          /\ outcome'.path = None =>
                /\ files' = files
                /\ outcome'.written = <<>>
                /\ outcome'.status = "ok" =>
                      IF NOutputs(adapter) = 1
                      THEN outcome'.ret = ReturnDataset(outcome'.calls[1])
                      ELSE /\ outcome'.ret = ReturnList(outcome'.calls)
                           /\ Len(outcome'.calls) = NOutputs(adapter)]_vars

\* C12 witness: a Thuillier format call with a path has written its dataset
\* and returned None.
C12_Witness ==
    /\ adapter = THUILLIER
    /\ outcome.op = "format"
    /\ outcome.status = "ok"
    /\ outcome.path = FormattedDir
    /\ outcome.ret = NoReturn
    /\ <<FormattedDir, <<THUILLIER, DotNc>>>> \in DOMAIN files

\* C24: a WHI or TSIS-1 FSE format call whose path is given and is not an
\* existing directory raises ValueError before anything else: whether the
\* raw data can be read or not, no builder call is made, nothing is written
\* or returned, every file stays as it was and the directory is not created.
C24_FormatRefusesMissingDirectory ==
    [][(/\ outcome'.op = "format"
        /\ adapter \in {WHI, FSE}
        /\ outcome'.path # None
        /\ outcome'.path \notin dirs) =>
          /\ outcome'.status = "ValueError"
          /\ outcome'.calls = <<>>
          /\ outcome'.written = <<>>
          /\ outcome'.ret = NoReturn
          /\ files' = files
          /\ dirs' = dirs]_vars

\* C24 witness: a WHI format call was refused with ValueError although the
\* table was there to be read; the directory still does not exist.
C24_Witness ==
    /\ adapter = WHI
    /\ outcome.op = "format"
    /\ outcome.path = FormattedDir
    /\ outcome.status = "ValueError"
    /\ Readable(files, outcome.data, RawFiles(WHI)[1])
    /\ FormattedDir \notin dirs

\* The values of a sequence.
Range(s) == {s[k] : k \in 1..Len(s)}

\* C13: every dataset a format call returns or writes to a file is,
\* unchanged, the result of one of the builder calls it made, and it makes
\* one builder call per dataset.
C13_BuilderChokepoint ==
    outcome.op = "format" =>
        /\ \A k \in 1..Len(outcome.written) :
              /\ k <= Len(outcome.calls)
              /\ files[<<outcome.path, outcome.written[k].name>>] = outcome.calls[k]
              /\ outcome.calls[k].kind = "nc"
        /\ outcome.ret.kind = "dataset" => outcome.calls = <<outcome.ret.value>>
        /\ outcome.ret.kind = "list" => outcome.calls = outcome.ret.value
        /\ Len(outcome.calls) <= NOutputs(adapter)

\* C13 witness: a SOLID format call with a path has written the dataset the
\* builder returned.
C13_Witness ==
    /\ adapter = SOLID
    /\ outcome.op = "format"
    /\ outcome.status = "ok"
    /\ outcome.path = FormattedDir
    /\ Len(outcome.calls) = 1
    /\ files[<<FormattedDir, <<SOLID, DotNc>>>>] = outcome.calls[1]

\* The attributes the caller of the builder must give.
CallerAttributes == {"title", "institution", "source", "references"}

\* A builder call that supplies data_url and the four attributes, none
\* empty.
SuppliesMetadata(c) ==
    /\ "data_url" \in DOMAIN c
    /\ c.data_url # ""
    /\ CallerAttributes \subseteq DOMAIN c.attrs
    /\ c.attrs.title[1] # ""
    /\ c.attrs.institution # ""
    /\ c.attrs.source # ""
    /\ c.attrs.references # ""

\* C14: every builder call a notebook makes supplies a data_url argument and
\* the attributes title, institution, source and references, each
\* non-empty.
C14_BuilderCallsCarryMetadata ==
    \A nb \in procs : \A i \in 1..Len(log[nb]) :
        \A k \in 1..Len(log[nb][i].calls) : SuppliesMetadata(log[nb][i].calls[k])

\* C20: every location a download call fetches from is the url it was
\* given.
C20_DownloadUsesUrlArgument ==
    outcome.op = "download" =>
        \A j \in 1..Len(outcome.fetched) : outcome.fetched[j][1] = outcome.url

(***************************************************************************)
(* Properties of the builder.                                              *)
(***************************************************************************)
\* The attributes a call leaves out or gives empty, data_url among them.
Absent(jb) ==
    {k \in CallerAttributes : k \notin DOMAIN jb.attrs \/ jb.attrs[k] = ""}
        \cup (IF jb.data_url = "" THEN {"data_url"} ELSE {})

\* The values of w are in strictly increasing order, no two equal.
Increasing(w) ==
    \A i, j \in 1..Len(w) : i < j => (~w[i].nan /\ ~w[j].nan /\ w[i].v < w[j].v)

\* C15: a builder call whose attributes lack mandatory keys or give them
\* empty produces no dataset; it fails with MissingMetadataError when the
\* wavelengths are in order, and a MissingMetadataError names every absent
\* or empty key, not only one.
C15_MissingMetadataNamesAll ==
    (built.adapter = CALLER /\ Absent(job) # {}) =>
        /\ built.result.status # "ok"
        /\ "dataset" \notin DOMAIN built.result
        /\ Increasing(job.w.magnitude) => built.result.status = "MissingMetadataError"
        /\ built.result.status = "MissingMetadataError" =>
              built.result.missing = Absent(job)

\* C15 witness: the call of the unfilled template, title, institution,
\* source, references and data_url all empty, has failed naming the five.
C15_Witness ==
    /\ built.adapter = CALLER
    /\ job.attrs = [title |-> "", institution |-> "", source |-> "", references |-> ""]
    /\ job.data_url = ""
    /\ built.result.status = "MissingMetadataError"
    /\ built.result.missing =
          {"title", "institution", "source", "references", "data_url"}

\* The wavelength column a format step is to hand over: for Meftah the rows
\* of at least 165 nm, for Thuillier every row, in file order, is in
\* strictly increasing order.
ColumnIncreasing(jb) ==
    LET keep == IF jb.adapter = MEFTAH THEN KeptRows(jb.rows) ELSE 1..Len(jb.rows)
    IN  \A i, j \in keep : i < j => jb.rows[i].w.v < jb.rows[j].w.v

\* C16: the wavelength axis of every dataset the builder gives is strictly
\* increasing without duplicates; a wavelength column that is not, which the
\* Meftah and Thuillier formats hand over as read, makes the call fail with
\* SchemaViolationError and give no dataset, and so does such a w in a
\* direct call with complete attributes.
C16_WavelengthStrictlyIncreasing ==
    built.adapter # None =>
        /\ built.result.status = "ok" =>
              Increasing(built.result.dataset.w.magnitude)
        /\ (built.adapter \in {MEFTAH, THUILLIER} /\ ~ColumnIncreasing(job)) =>
              /\ built.result.status = "SchemaViolationError"
              /\ "dataset" \notin DOMAIN built.result
        /\ (built.adapter \in {MEFTAH, THUILLIER} /\ ColumnIncreasing(job)) =>
              built.result.status = "ok"
        /\ (built.adapter = CALLER /\ ~Increasing(job.w.magnitude)) =>
              /\ built.result.status # "ok"
              /\ "dataset" \notin DOMAIN built.result
              /\ Absent(job) = {} => built.result.status = "SchemaViolationError"

\* C16 witness: a Meftah table with the 3000.10 nm row before the 165.0 nm
\* row has been formatted and the builder has refused it.
C16_Witness ==
    /\ built.adapter = MEFTAH
    /\ Len(job.rows) = 2
    /\ job.rows[1].w = Num(300010)
    /\ job.rows[2].w = Num(16500)
    /\ built.w.magnitude = <<Float(300010), Float(16500)>>
    /\ built.result.status = "SchemaViolationError"

\* The builder was handed a two-dimensional ssi over nt >= 1 times and nw
\* wavelengths and gave a dataset.
Built2D ==
    /\ built.adapter \in {SOLID, CALLER}
    /\ built.result.status = "ok"
    /\ built.result.dataset.ssi.dims = <<"t", "w">>
    /\ Len(built.result.dataset.t.values) >= 1

\* In ssi of the dataset, the entry of time j and wavelength i is the
\* irradiance of time j at wavelength i.
InTimeWavelengthOrder ==
    LET out == built.result.dataset.ssi.magnitude
        nt == Len(built.result.dataset.t.values)
        nw == Len(built.result.dataset.w.magnitude)
    IN  /\ Len(out) = nt
        /\ \A j \in 1..nt :
              /\ Len(out[j]) = nw
              /\ \A i \in 1..nw : out[j][i] = [w |-> i, t |-> j]

====
